---- MODULE Spec2Model ----
(***************************************************************************)
(* MOSFET lifetime simulation: the rainflow cycle extractor, the Miner's   *)
(* rule damage accumulator, the lifetime estimator, the thermal run and    *)
(* the per-device orchestration loop.                                      *)
(*                                                                         *)
(* Temperatures are exact fixed-point numbers counted in units of 0.025    *)
(* degrees; a sample of a signal sits on a level of 0.05 degrees, so the   *)
(* half of a swing and the mean of two samples are again whole units.      *)
(* Weights are counted in halves (2 = weight 1.0, 1 = weight 0.5).         *)
(***************************************************************************)
EXTENDS Integers, Sequences, FiniteSets

VARIABLES signal, extrema, rf,
          mcycles, mraws, mresult,
          dmg, years,
          vrt, irt, simPc, devIdx, cur, trace, results, failures,
          thParams, thAmb, thPower, thY, thDy,
          estSignal, est

vars == <<signal, extrema, rf, mcycles, mraws, mresult, dmg, years,
          vrt, irt, simPc, devIdx, cur, trace, results, failures,
          thParams, thAmb, thPower, thY, thDy, estSignal, est>>

rainVars == <<signal, extrema, rf>>
minerVars == <<mcycles, mraws, mresult>>
lifeVars == <<dmg, years>>
simVars == <<vrt, irt, simPc, devIdx, cur, trace, results, failures>>
thermVars == <<thParams, thAmb, thPower, thY, thDy>>
estVars == <<estSignal, est>>

(***************************************************************************)
(* Bounds of the model.                                                    *)
(***************************************************************************)
MaxLen == 5
MaxLevel == 5
MaxCycles == 2
MaxAmp == 2
MaxHi == 3
MaxLo == 12
MaxTime == 2
MaxNodes == 2
MaxDevices == 2
MaxLadder == 3

(***************************************************************************)
(* Generic helpers.                                                        *)
(***************************************************************************)
Abs(x) == IF x < 0 THEN -x ELSE x

Range(s) == {s[j] : j \in 1..Len(s)}

\* Python's s[k] for a 0-based index k >= 0.
At(s, k) == s[k + 1]

\* All sequences over S of length lo..hi.
SeqsOf(S, lo, hi) == UNION {[1..n -> S] : n \in lo..hi}

RECURSIVE Insert(_, _)
Insert(x, s) ==
    IF s = <<>> THEN <<x>>
    ELSE IF x <= Head(s) THEN <<x>> \o s
    ELSE <<Head(s)>> \o Insert(x, Tail(s))

\* np.sort of a sequence of integers.
RECURSIVE Sort(_)
Sort(s) == IF s = <<>> THEN <<>> ELSE Insert(Head(s), Sort(Tail(s)))

(***************************************************************************)
(* rainflow(signal, min_delta_T)                                           *)
(***************************************************************************)
\* min_delta_T = 0.1 degrees, in units of 0.025 degrees.
MinDeltaT == 4

\* One level of a sample is 0.05 degrees = 2 units.
LevelValue(l) == 2 * l

FullWeight == 2
HalfWeight == 1

\* np.diff(signal)[j], j 0-based.
Diff(sig, j) == At(sig, j + 1) - At(sig, j)

\* np.where((diff[:-1] > 0) & (diff[1:] <= 0))[0] + 1
Peaks(sig) == {j \in 1..(Len(sig) - 2) : Diff(sig, j - 1) > 0 /\ Diff(sig, j) <= 0}

\* np.where((diff[:-1] < 0) & (diff[1:] >= 0))[0] + 1
Valleys(sig) == {j \in 1..(Len(sig) - 2) : Diff(sig, j - 1) < 0 /\ Diff(sig, j) >= 0}

RECURSIVE SetToSeq(_)
SetToSeq(S) ==
    IF S = {} THEN <<>>
    ELSE LET x == CHOOSE y \in S : \A z \in S : y <= z
         IN <<x>> \o SetToSeq(S \ {x})

\* np.sort(np.concatenate((peaks, valleys, [0, len(signal)-1])))
Extrema(sig) ==
    Sort(SetToSeq(Peaks(sig)) \o SetToSeq(Valleys(sig)) \o <<0, Len(sig) - 1>>)

\* signal[extrema[i]] for a stack entry i.
Val(sig, ext, i) == At(sig, At(ext, i))

Cycle(amplitude, mean, weight) == [amplitude |-> amplitude, mean |-> mean, weight |-> weight]

\* The locals of rainflow before the for loop.
RainflowStart ==
    [pc |-> "for", i |-> 0, stack |-> <<>>, cycles |-> <<>>, pushed |-> <<>>]

\* range(len(extrema) - 1): the values the for loop binds to i.
ForRange(ext) == Len(ext) - 1

\* for i in range(len(extrema) - 1): stack.append(i)
ForEnabled(ext, st) == st.pc = "for" /\ st.i < ForRange(ext)

ForPush(st) ==
    [st EXCEPT !.pc = "while", !.stack = Append(@, st.i), !.pushed = Append(@, st.i)]

ForExit(st) == [st EXCEPT !.pc = "drain"]

\* The top three entries of the stack: i1, i2, i3 = stack[-3:]
Top3(st) == SubSeq(st.stack, Len(st.stack) - 2, Len(st.stack))

\* The rule with the outer swing held against the threshold instead.
CloseCondThreshold(x1, x2, x3) == Abs(x2 - x1) >= MinDeltaT /\ Abs(x3 - x2) <= MinDeltaT

\* delta_T >= min_delta_T and abs(x3 - x2) <= abs(x2 - x1)
CloseCond(x1, x2, x3) == Abs(x2 - x1) >= MinDeltaT /\ Abs(x3 - x2) <= Abs(x2 - x1)

WhileCloses(sig, ext, st) ==
    /\ Len(st.stack) >= 3
    /\ LET t == Top3(st)
       IN CloseCond(Val(sig, ext, t[1]), Val(sig, ext, t[2]), Val(sig, ext, t[3]))

\* stack.pop(-2)
PopSecond(stack) ==
    SubSeq(stack, 1, Len(stack) - 2) \o <<stack[Len(stack)]>>

\* cycles.append([delta_T / 2, (x1 + x2) / 2, 1]); stack.pop(-2)
WhileExtract(sig, ext, st) ==
    LET t == Top3(st)
        x1 == Val(sig, ext, t[1])
        x2 == Val(sig, ext, t[2])
        delta_T == Abs(x2 - x1)
    IN [st EXCEPT !.cycles = Append(@, Cycle(delta_T \div 2, (x1 + x2) \div 2, FullWeight)),
                  !.stack = PopSecond(@)]

\* break, or the while condition len(stack) >= 3 fails: next iteration of the for loop.
WhileBreak(st) == [st EXCEPT !.pc = "for", !.i = @ + 1]

\* while len(stack) >= 2: the residual drain.
DrainEnabled(st) == st.pc = "drain" /\ Len(st.stack) >= 2

\* The drain without the threshold test.
DrainPairUnfiltered(sig, ext, st) ==
    LET n == Len(st.stack)
        x1 == Val(sig, ext, st.stack[n - 1])
        x2 == Val(sig, ext, st.stack[n])
        delta_T == Abs(x2 - x1)
    IN [st EXCEPT !.cycles = Append(@, Cycle(delta_T \div 2, (x1 + x2) \div 2, HalfWeight)),
                  !.stack = SubSeq(@, 1, n - 1)]

DrainPair(sig, ext, st) ==
    LET n == Len(st.stack)
        x1 == Val(sig, ext, st.stack[n - 1])
        x2 == Val(sig, ext, st.stack[n])
        delta_T == Abs(x2 - x1)
    IN [st EXCEPT !.cycles = IF delta_T >= MinDeltaT
                             THEN Append(@, Cycle(delta_T \div 2, (x1 + x2) \div 2, HalfWeight))
                             ELSE @,
                  !.stack = SubSeq(@, 1, n - 1)]

\* return np.array(cycles), len(cycles)
DrainExit(st) == [st EXCEPT !.pc = "return"]

\* One step of rainflow from the locals st.
RainflowStep(sig, ext, st) ==
    CASE st.pc = "for" ->
            IF ForEnabled(ext, st) THEN ForPush(st) ELSE ForExit(st)
      [] st.pc = "while" ->
            IF WhileCloses(sig, ext, st) THEN WhileExtract(sig, ext, st) ELSE WhileBreak(st)
      [] st.pc = "drain" ->
            IF DrainEnabled(st) THEN DrainPair(sig, ext, st) ELSE DrainExit(st)
      [] OTHER -> st

RECURSIVE RainflowRun(_, _, _)
RainflowRun(sig, ext, st) ==
    IF st.pc = "return" THEN st ELSE RainflowRun(sig, ext, RainflowStep(sig, ext, st))

\* rainflow(signal): the pair (cycles, len(cycles)).
rainflow(sig) ==
    LET st == RainflowRun(sig, Extrema(sig), RainflowStart)
    IN <<st.cycles, Len(st.cycles)>>

(***************************************************************************)
(* Exact numbers of the damage pipeline.  A quantity q is the pair         *)
(* (hi, lo) standing for (hi + lo * 10^-10) / 4: hi counts quarters, lo    *)
(* counts quarters of 10^-10.  Within the bounds of the model lo stays     *)
(* far below 4 * 10^10, so no carry occurs, sums are taken limb by limb    *)
(* and the order is lexicographic.                                         *)
(***************************************************************************)
Q(hi, lo) == [hi |-> hi, lo |-> lo]

Zero == Q(0, 0)

One == Q(4, 0)

Leq(a, b) == a.hi < b.hi \/ (a.hi = b.hi /\ a.lo <= b.lo)

Less(a, b) == a.hi < b.hi \/ (a.hi = b.hi /\ a.lo < b.lo)

Plus(a, b) == Q(a.hi + b.hi, a.lo + b.lo)

Scale(a, k) == Q(a.hi * k, a.lo * k)

\* A max that keeps its first argument.
PyMaxFirst(a, b) == a

\* Python's max(a, b): b only when b > a.
PyMax(a, b) == IF Less(a, b) THEN b ELSE a

(***************************************************************************)
(* A number of cycles to failure is [h, big], standing for h / 2 cycles    *)
(* when big is FALSE and for (h / 2) * 10^10 cycles when big is TRUE.      *)
(***************************************************************************)
Nf(h, big) == [h |-> h, big |-> big]

NfOne == Nf(2, FALSE)

NfLess(a, b) == IF a.big = b.big THEN a.h < b.h ELSE b.big

\* weight / N_f, weight in halves; exact for h in {1, 2, 4}.
WeightOver(weight, nf) ==
    LET quarters == (4 * weight) \div nf.h
    IN IF nf.big THEN Q(0, quarters) ELSE Q(quarters, 0)

\* The values the expression A * delta_T ** -n * exp(Ea / (kb * T_kelvin)) takes:
\* 0.5, 2, 0.5e10 and 2e10 cycles.  It is a positive real built from a real power
\* and an exponential; the model takes its value for a cycle as an input.
NfRawSet == {Nf(1, FALSE), Nf(4, FALSE), Nf(1, TRUE), Nf(4, TRUE)}

(***************************************************************************)
(* calculate_cycles_to_failure, miners_rule_degradation,                   *)
(* estimate_lifetime_years, estimate_lifetime                              *)
(***************************************************************************)
\* return max(N_f, 1), N_f the value raw of the Coffin-Manson-Arrhenius expression.
calculate_cycles_to_failure(delta_T, T_mean, raw) ==
    IF NfLess(raw, NfOne) THEN NfOne ELSE raw

\* 1e-10, the minimal degradation.
DamageFloor == Q(0, 4)

\* The for loop of miners_rule_degradation over cycles[k..], from the locals acc.
RECURSIVE MinerLoop(_, _, _, _)
MinerLoop(cycles, raws, k, acc) ==
    IF k > Len(cycles) THEN acc
    ELSE LET delta_T == cycles[k].amplitude
             T_mean == cycles[k].mean
             n == cycles[k].weight
             N_f == calculate_cycles_to_failure(delta_T, T_mean, raws[k])
         IN MinerLoop(cycles, raws, k + 1,
                      [damage |-> Plus(acc.damage, WeightOver(n, N_f)),
                       cycles_to_failure |-> Append(acc.cycles_to_failure, <<delta_T, N_f>>)])

\* The Miner's sum before the floor.
MinerSum(cycles, raws) ==
    MinerLoop(cycles, raws, 1, [damage |-> Zero, cycles_to_failure |-> <<>>])

\* The accumulation with "damage = n / N_f" in place of "damage += n / N_f".
RECURSIVE MinerLoopOverwrite(_, _, _, _)
MinerLoopOverwrite(cycles, raws, k, acc) ==
    IF k > Len(cycles) THEN acc
    ELSE LET delta_T == cycles[k].amplitude
             N_f == calculate_cycles_to_failure(delta_T, cycles[k].mean, raws[k])
         IN MinerLoopOverwrite(cycles, raws, k + 1,
                      [damage |-> WeightOver(cycles[k].weight, N_f),
                       cycles_to_failure |-> Append(acc.cycles_to_failure, <<delta_T, N_f>>)])

\* The function with the overwriting accumulation.
miners_rule_degradation_overwrite(cycles, raws) ==
    IF Len(cycles) = 0 THEN [damage |-> Zero, cycles_to_failure |-> <<>>]
    ELSE LET acc == MinerLoopOverwrite(cycles, raws, 1, [damage |-> Zero, cycles_to_failure |-> <<>>])
         IN [damage |-> PyMax(acc.damage, DamageFloor),
             cycles_to_failure |-> acc.cycles_to_failure]

miners_rule_degradation(cycles, raws) ==
    IF Len(cycles) = 0 THEN [damage |-> Zero, cycles_to_failure |-> <<>>]
    ELSE LET acc == MinerSum(cycles, raws)
         IN [damage |-> PyMax(acc.damage, DamageFloor),
             cycles_to_failure |-> acc.cycles_to_failure]

CyclesPerYear == 100000
YearsCap == 100

\* A lifetime in years is infinite, the whole number v, or the reciprocal 1 / x of
\* a positive quantity x.
NotEstimated == [kind |-> "none"]
Infinite == [kind |-> "inf"]
Whole(v) == [kind |-> "whole", v |-> v]
Recip(x) == [kind |-> "recip", x |-> x]

\* Python's min(1 / x, cap) for x > 0: cap only when cap < 1 / x, that is cap * x < 1.
PyMinRecip(x, cap) == IF Less(Scale(x, cap), One) THEN Whole(cap) ELSE Recip(x)

\* The estimate without the cap at 100 years.
estimate_lifetime_years_uncapped(degradation) ==
    IF Leq(degradation, Zero) THEN Infinite
    ELSE Recip(Scale(degradation, CyclesPerYear))

\* (1 / degradation) / cycles_per_year = 1 / (degradation * cycles_per_year)
estimate_lifetime_years(degradation) ==
    IF Leq(degradation, Zero) THEN Infinite
    ELSE PyMinRecip(Scale(degradation, CyclesPerYear), YearsCap)

\* The estimate that counts the full cycles only.
estimate_lifetime_full_only(t_j, raws) ==
    LET rc == rainflow(t_j)
        md == miners_rule_degradation(rc[1], raws)
    IN [degradation |-> md.damage,
        estimated_years |-> estimate_lifetime_years(md.damage),
        total_cycles |-> Cardinality({k \in 1..Len(rc[1]) : rc[1][k].weight = FullWeight}),
        cycles_to_failure |-> md.cycles_to_failure]

\* estimate_lifetime(t_j, lifetime_params); raws[k] is the value of the
\* Coffin-Manson-Arrhenius expression for the k-th extracted cycle.
estimate_lifetime(t_j, raws) ==
    LET rc == rainflow(t_j)
        md == miners_rule_degradation(rc[1], raws)
    IN [degradation |-> md.damage,
        estimated_years |-> estimate_lifetime_years(md.damage),
        total_cycles |-> rc[2],
        cycles_to_failure |-> md.cycles_to_failure]

(***************************************************************************)
(* Exact rationals of the thermal network: <<n, d>> with d > 0, in lowest  *)
(* terms.  Temperatures are counted in units of 0.025 degrees and powers   *)
(* in units of 0.025 W, so that a flow (y[i] - y[j]) / r is a power.       *)
(***************************************************************************)
RECURSIVE GCD(_, _)
GCD(a, b) == IF b = 0 THEN a ELSE GCD(b, a % b)

Rat(n, d) ==
    LET g == GCD(Abs(n), Abs(d))
        sgn == IF d < 0 THEN -1 ELSE 1
    IN <<sgn * (n \div g), sgn * (d \div g)>>

RInt(n) == <<n, 1>>
RSub(a, b) == Rat(a[1] * b[2] - b[1] * a[2], a[2] * b[2])
RMul(a, b) == Rat(a[1] * b[1], a[2] * b[2])
RDiv(a, b) == Rat(a[1] * b[2], a[2] * b[1])

(***************************************************************************)
(* non_linear_thermal_properties, thermal_model                            *)
(***************************************************************************)
\* 1 + 0.005 * (t_j - 25), t_j in units of 0.025 degrees.
RthFactor(t_j) == Rat(7000 + t_j, 8000)

\* 1 + 0.002 * (t_j - 25), t_j in units of 0.025 degrees.
CthFactor(t_j) == Rat(19000 + t_j, 20000)

\* The pair (r_th, c_th): each list as long as the list of params it is built from.
non_linear_thermal_properties(t_j, params) ==
    [r_th |-> [k \in 1..Len(params.R_TH) |-> RMul(RInt(params.R_TH[k]), RthFactor(t_j))],
     c_th |-> [k \in 1..Len(params.C_TH) |-> RMul(RInt(params.C_TH[k]), CthFactor(t_j))]]

\* An exception of type error raised in the function where.
Raise(error, where) == [kind |-> "raise", error |-> error, where |-> where]

\* COOLING_COEFF * SURFACE_AREA * (t_j - t_amb); SURFACE_AREA is a rational.
Cooling(params, t_j, t_amb) ==
    RMul(RMul(RInt(params.COOLING_COEFF), params.SURFACE_AREA), RInt(t_j - t_amb))

\* The heat flow that enters the numerator of dy[i] with a plus sign, i 0-based:
\* p_total - p_cool at node 0 (line 62), (y[i-1] - y[i]) / r_th[i] at every other
\* node (lines 64 and 66).
InFlow(i, y, r_th, p_total, p_cool) ==
    IF i = 0 THEN RSub(RInt(p_total), p_cool)
    ELSE RDiv(RInt(At(y, i - 1) - At(y, i)), At(r_th, i))

\* The heat flow that enters the numerator of dy[i] with a minus sign:
\* (y[i] - (y[i+1] if i+1 < n else 0)) / r_th[i] at node 0 (line 62),
\* (y[i] - t_amb) / r_th[i] at the last node (line 64),
\* (y[i] - y[i+1]) / r_th[i+1] at a node in between (line 66).
OutFlow(i, n, y, r_th, t_amb) ==
    IF i = 0
    THEN RDiv(RInt(At(y, i) - (IF i + 1 < n THEN At(y, i + 1) ELSE 0)), At(r_th, i))
    ELSE IF i = n - 1
    THEN RDiv(RInt(At(y, i) - t_amb), At(r_th, i))
    ELSE RDiv(RInt(At(y, i) - At(y, i + 1)), At(r_th, i + 1))

\* dy[i] of the for loop, i 0-based, n = len(r_th).
NodeDerivative(i, n, y, r_th, c_th, t_amb, p_total, p_cool) ==
    RDiv(RSub(InFlow(i, y, r_th, p_total, p_cool), OutFlow(i, n, y, r_th, t_amb)),
         At(c_th, i))

\* thermal_model(t, y, params, v_ds_func, i_d_func, t_amb, f_sw); p_total is the
\* value calculate_power_dissipation returns at time t.  y[0] of an empty state and
\* c_th[i] past the end of c_th raise IndexError.
thermal_model(y, params, t_amb, p_total) ==
    IF Len(y) = 0 THEN Raise("IndexError", "thermal_model")
    ELSE LET t_j == At(y, 0) + t_amb
             th == non_linear_thermal_properties(t_j, params)
             n == Len(th.r_th)
             p_cool == Cooling(params, t_j, t_amb)
         IN IF \E i \in 0..(n - 1) : i >= Len(th.c_th) \/ i >= Len(y)
            THEN Raise("IndexError", "thermal_model")
            ELSE [kind |-> "ok",
                  dy |-> [k \in 1..n |->
                            NodeDerivative(k - 1, n, y, th.r_th, th.c_th, t_amb, p_total, p_cool)]]

(***************************************************************************)
(* run_thermal_simulation                                                  *)
(***************************************************************************)
\* A waveform is modelled by the times of its samples, in increasing order.
\* np.unique(np.array([point[0] for point in vrt + irt])); t.sort()
SampleTimes(vrtW, irtW) == Sort(SetToSeq(Range(vrtW \o irtW)))

\* The value an interpolation function returns at time x, as a term.
Interpolated(waveform, x) == [waveform |-> waveform, at |-> x]

\* One component of calculate_power_dissipation(v_ds, i_d, t_j, params, f_sw), as a term.
PowerTerm(part, v_ds, i_d, t_j) == [part |-> part, v_ds |-> v_ds, i_d |-> i_d, t_j |-> t_j]

\* The loop over the columns the integrator returned, however few.
RECURSIVE PowerLoopShort(_, _, _, _, _, _)
PowerLoopShort(i, t, t_j, v_ds, i_d, acc) ==
    IF i >= Len(t) \/ i >= Len(t_j) THEN acc
    ELSE PowerLoopShort(i + 1, t, t_j, v_ds, i_d,
             [kind |-> "ok",
              p_total |-> Append(acc.p_total, PowerTerm("total", At(v_ds, i), At(i_d, i), At(t_j, i))),
              p_cond |-> Append(acc.p_cond, PowerTerm("cond", At(v_ds, i), At(i_d, i), At(t_j, i))),
              p_sw |-> Append(acc.p_sw, PowerTerm("sw", At(v_ds, i), At(i_d, i), At(t_j, i))),
              p_cap |-> Append(acc.p_cap, PowerTerm("cap", At(v_ds, i), At(i_d, i), At(t_j, i)))])

\* for i in range(len(t)): p_total[i], ... = calculate_power_dissipation(v_ds[i], i_d[i], t_j[i], ...)
\* from i (0-based) on; t_j[i] past the end of t_j raises IndexError.
RECURSIVE PowerLoop(_, _, _, _, _, _)
PowerLoop(i, t, t_j, v_ds, i_d, acc) ==
    IF i >= Len(t) THEN acc
    ELSE IF i >= Len(t_j) THEN Raise("IndexError", "run_thermal_simulation")
    ELSE PowerLoop(i + 1, t, t_j, v_ds, i_d,
             [kind |-> "ok",
              p_total |-> Append(acc.p_total, PowerTerm("total", At(v_ds, i), At(i_d, i), At(t_j, i))),
              p_cond |-> Append(acc.p_cond, PowerTerm("cond", At(v_ds, i), At(i_d, i), At(t_j, i))),
              p_sw |-> Append(acc.p_sw, PowerTerm("sw", At(v_ds, i), At(i_d, i), At(t_j, i))),
              p_cap |-> Append(acc.p_cap, PowerTerm("cap", At(v_ds, i), At(i_d, i), At(t_j, i)))])

\* run_thermal_simulation(params, vrt, irt, t_amb, f_sw).  solve_ivp first evaluates
\* thermal_model at (t[0], y0), with the power p0, and an exception of thermal_model
\* leaves solve_ivp.  Otherwise sol is what the integrator returns: sol.rises is row 0
\* of solution.y, with one column per evaluation time it reached, and with no column
\* at all solution.y is an empty list, which solution.y[0, :] cannot index.
run_thermal_simulation(params, vrtW, irtW, t_amb, p0, sol) ==
    LET t == SampleTimes(vrtW, irtW)
        y0 == [k \in 1..Len(params.R_TH) |-> 0]
        first == thermal_model(y0, params, t_amb, p0)
    IN IF first.kind = "raise" THEN first
       ELSE IF Len(sol.rises) = 0 THEN Raise("TypeError", "run_thermal_simulation")
       ELSE LET t_j == [k \in 1..Len(sol.rises) |-> sol.rises[k] + t_amb]
                v_ds == [k \in 1..Len(t) |-> Interpolated("vrt", t[k])]
                i_d == [k \in 1..Len(t) |-> Interpolated("irt", t[k])]
                p == PowerLoop(0, t, t_j, v_ds, i_d,
                               [kind |-> "ok", p_total |-> <<>>, p_cond |-> <<>>,
                                p_sw |-> <<>>, p_cap |-> <<>>])
            IN IF p.kind = "raise" THEN p
               ELSE [kind |-> "ok", t |-> t, t_j |-> t_j, v_ds |-> v_ds, i_d |-> i_d,
                     p_total |-> p.p_total, p_cond |-> p.p_cond,
                     p_sw |-> p.p_sw, p_cap |-> p.p_cap]

(***************************************************************************)
(* run_simulation                                                          *)
(***************************************************************************)
\* T_AMB = 50.0 degrees, in units of 0.025 degrees.
T_AMB == 2000

NoDevice == [kind |-> "none"]
NoTrace == [kind |-> "none"]

\* A store that starts the dictionary afresh.
WithResultOnly(res, name, entry) == [n \in {name} |-> entry]

\* results[mosfet_name] = {...}
WithResult(res, name, entry) ==
    [n \in DOMAIN res \cup {name} |-> IF n = name THEN entry ELSE res[n]]

\* The dictionary stored for a device, from the trace and the lifetime estimate.
ResultEntry(tr, life) ==
    [t |-> tr.t, t_j |-> tr.t_j, v_ds |-> tr.v_ds, i_d |-> tr.i_d,
     p_total |-> tr.p_total, p_cond |-> tr.p_cond, p_sw |-> tr.p_sw, p_cap |-> tr.p_cap,
     degradation |-> life.degradation, estimated_years |-> life.estimated_years,
     total_cycles |-> life.total_cycles, cycles_to_failure |-> life.cycles_to_failure]

\* params['LIFETIME_PARAMS'] raises KeyError when the key is absent; params['A'] in
\* calculate_cycles_to_failure raises KeyError when the dictionary is incomplete and
\* a cycle is evaluated.
LifetimeKeyError(lifetime_params, t_j) ==
    \/ lifetime_params = "absent"
    \/ lifetime_params = "incomplete" /\ rainflow(t_j)[2] > 0

(***************************************************************************)
(* Inputs.                                                                 *)
(***************************************************************************)
Levels == {LevelValue(l) : l \in 0..MaxLevel}

Signals == SeqsOf(Levels, 0, MaxLen)

\* Mean temperatures of 50 and 50.1 degrees.
MeanInputs == {2000, 2004}

CycleInputs ==
    {Cycle(a, m, w) : a \in 1..MaxAmp, m \in MeanInputs, w \in {HalfWeight, FullWeight}}

DamageInputs == {Q(hi, lo) : hi \in (-1)..MaxHi, lo \in 0..MaxLo}

\* The voltage waveform has its samples at times 0..b, the current waveform at
\* times a..MaxTime, each with at least two samples.
VoltageWaveforms == {[k \in 1..(b + 1) |-> k - 1] : b \in 1..MaxTime}

CurrentWaveforms == {[k \in 1..(MaxTime - a + 1) |-> a + k - 1] : a \in 0..(MaxTime - 1)}

\* Device parameters: thermal networks of 0..MaxNodes resistances and capacitances,
\* COOLING_COEFF = 15, SURFACE_AREA = 0.0012.
DeviceParams ==
    {[R_TH |-> [k \in 1..nr |-> k], C_TH |-> [k \in 1..nc |-> k],
      COOLING_COEFF |-> 15, SURFACE_AREA |-> Rat(12, 10000), LIFETIME_PARAMS |-> lp] :
        nr \in 0..MaxNodes, nc \in 0..MaxNodes, lp \in {"absent", "incomplete", "complete"}}

\* Total power at the first evaluation of thermal_model: 0 W and 1 W.
PowerInputs == {0, 40}

\* Row 0 of solution.y: the rise of the junction at the k <= n evaluation times the
\* integrator reached, 0 at the first one (y0 is all zero), then either 0 throughout
\* or 0.15 degrees throughout.
SolverOutcomes(n) ==
    {[rises |-> [j \in 1..k |-> IF heated /\ j >= 2 THEN 6 ELSE 0]] :
        k \in 0..n, heated \in BOOLEAN}

\* Devices with a ladder of 1..MaxLadder nodes, R_TH and C_TH of one length.
ThermalDevices ==
    {[R_TH |-> [k \in 1..n |-> k], C_TH |-> [k \in 1..n |-> k],
      COOLING_COEFF |-> 15, SURFACE_AREA |-> Rat(12, 10000), LIFETIME_PARAMS |-> "complete"] :
        n \in 1..MaxLadder}

\* Ambient temperatures of 0, 25 and 50 degrees.
AmbientInputs == {0, 1000, 2000}

\* Temperature rises of a node: 0, 10 and 25 degrees.
RiseInputs == {0, 400, 1000}

\* The values of the Coffin-Manson-Arrhenius expression in a run of estimate_lifetime:
\* 0.5 (below the clamp at 1) and 2e10 (a cycle of damage below the floor).
EstRawSet == {Nf(1, FALSE), Nf(4, TRUE)}

\* The values of the Coffin-Manson-Arrhenius expression in a run of run_simulation.
SimRawSet == {Nf(4, FALSE), Nf(4, TRUE)}

(***************************************************************************)
(* Idle values of the variables a specification does not use.              *)
(***************************************************************************)
RainIdle == signal = <<>> /\ extrema = <<>> /\ rf = [pc |-> "idle"]

MinerIdle == mcycles = <<>> /\ mraws = <<>> /\ mresult = [damage |-> Zero]

LifeIdle == dmg = Zero /\ years = [kind |-> "idle"]

SimIdle ==
    /\ vrt = <<>> /\ irt = <<>> /\ simPc = "idle" /\ devIdx = 0
    /\ cur = NoDevice /\ trace = NoTrace /\ results = <<>> /\ failures = <<>>

ThermIdle ==
    /\ thParams = NoDevice /\ thAmb = 0 /\ thPower = 0
    /\ thY = <<>> /\ thDy = [kind |-> "idle"]

EstIdle == estSignal = <<>> /\ est = [kind |-> "idle"]

(***************************************************************************)
(* Spec: rainflow on one signal, statement by statement.                   *)
(***************************************************************************)
Init ==
    /\ signal \in Signals
    /\ extrema = Extrema(signal)
    /\ rf = RainflowStart
    /\ MinerIdle /\ LifeIdle /\ SimIdle /\ ThermIdle /\ EstIdle

Push ==
    /\ ForEnabled(extrema, rf)
    /\ rf' = ForPush(rf)
    /\ UNCHANGED <<signal, extrema, minerVars, lifeVars, simVars, thermVars, estVars>>

LoopExit ==
    /\ rf.pc = "for" /\ ~ForEnabled(extrema, rf)
    /\ rf' = ForExit(rf)
    /\ UNCHANGED <<signal, extrema, minerVars, lifeVars, simVars, thermVars, estVars>>

Extract ==
    /\ rf.pc = "while" /\ WhileCloses(signal, extrema, rf)
    /\ rf' = WhileExtract(signal, extrema, rf)
    /\ UNCHANGED <<signal, extrema, minerVars, lifeVars, simVars, thermVars, estVars>>

Break ==
    /\ rf.pc = "while" /\ ~WhileCloses(signal, extrema, rf)
    /\ rf' = WhileBreak(rf)
    /\ UNCHANGED <<signal, extrema, minerVars, lifeVars, simVars, thermVars, estVars>>

Drain ==
    /\ DrainEnabled(rf)
    /\ rf' = DrainPair(signal, extrema, rf)
    /\ UNCHANGED <<signal, extrema, minerVars, lifeVars, simVars, thermVars, estVars>>

Return ==
    /\ rf.pc = "drain" /\ ~DrainEnabled(rf)
    /\ rf' = DrainExit(rf)
    /\ UNCHANGED <<signal, extrema, minerVars, lifeVars, simVars, thermVars, estVars>>

Next == Push \/ LoopExit \/ Extract \/ Break \/ Drain \/ Return

Spec == Init /\ [][Next]_vars

(***************************************************************************)
(* SpecMiner: miners_rule_degradation on a cycle list that grows by one    *)
(* cycle at a time.                                                        *)
(***************************************************************************)
InitMiner ==
    /\ mcycles = <<>>
    /\ mraws = <<>>
    /\ mresult = miners_rule_degradation(<<>>, <<>>)
    /\ RainIdle /\ LifeIdle /\ SimIdle /\ ThermIdle /\ EstIdle

AddCycle ==
    /\ Len(mcycles) < MaxCycles
    /\ \E c \in CycleInputs, raw \in NfRawSet :
          /\ mcycles' = Append(mcycles, c)
          /\ mraws' = Append(mraws, raw)
          /\ mresult' = miners_rule_degradation(Append(mcycles, c), Append(mraws, raw))
    /\ UNCHANGED <<rainVars, lifeVars, simVars, thermVars, estVars>>

NextMiner == AddCycle

SpecMiner == InitMiner /\ [][NextMiner]_vars

(***************************************************************************)
(* SpecLife: estimate_lifetime_years on one damage value.                  *)
(***************************************************************************)
InitLife ==
    /\ dmg \in DamageInputs
    /\ years = NotEstimated
    /\ RainIdle /\ MinerIdle /\ SimIdle /\ ThermIdle /\ EstIdle

Estimate ==
    /\ years = NotEstimated
    /\ years' = estimate_lifetime_years(dmg)
    /\ UNCHANGED <<dmg, rainVars, minerVars, simVars, thermVars, estVars>>

NextLife == Estimate

SpecLife == InitLife /\ [][NextLife]_vars

(***************************************************************************)
(* SpecSim: run_simulation over the configured devices, in order.          *)
(***************************************************************************)
InitSim ==
    /\ vrt \in VoltageWaveforms
    /\ irt \in CurrentWaveforms
    /\ simPc = "for"
    /\ devIdx = 0
    /\ cur = NoDevice
    /\ trace = NoTrace
    /\ results = <<>>
    /\ failures = <<>>
    /\ RainIdle /\ MinerIdle /\ LifeIdle /\ ThermIdle /\ EstIdle

\* for mosfet_name, params in MOSFET_PARAMS.items(): the next device.  The loop
\* variables are rebound here and read nowhere after the iteration, so the model
\* forgets them when the iteration ends.
FetchDevice ==
    /\ simPc = "for" /\ devIdx < MaxDevices
    /\ \E params \in DeviceParams : cur' = params
    /\ devIdx' = devIdx + 1
    /\ simPc' = "thermal"
    /\ UNCHANGED <<vrt, irt, trace, results, failures, rainVars, minerVars, lifeVars, thermVars, estVars>>

\* Line 33: run_thermal_simulation inside the try block.
SimThermal ==
    /\ simPc = "thermal"
    /\ \E p0 \in PowerInputs, sol \in SolverOutcomes(Len(SampleTimes(vrt, irt))) :
          LET r == run_thermal_simulation(cur, vrt, irt, T_AMB, p0, sol)
          IN IF r.kind = "ok"
             THEN /\ trace' = r
                  /\ simPc' = "lifetime"
                  /\ UNCHANGED <<failures, cur>>
             ELSE /\ trace' = NoTrace
                  /\ simPc' = "for"
                  /\ failures' = Append(failures, <<devIdx, r.error, r.where>>)
                  /\ cur' = NoDevice
    /\ UNCHANGED <<vrt, irt, devIdx, results, rainVars, minerVars, lifeVars, thermVars, estVars>>

\* Lines 34-52: estimate_lifetime and the result dictionary, or the except clause.
SimLifetime ==
    /\ simPc = "lifetime"
    /\ IF LifetimeKeyError(cur.LIFETIME_PARAMS, trace.t_j)
       THEN /\ failures' = Append(failures, <<devIdx, "KeyError", "estimate_lifetime">>)
            /\ UNCHANGED results
       ELSE /\ \E raws \in [1..rainflow(trace.t_j)[2] -> SimRawSet] :
                  results' = WithResult(results, devIdx,
                                        ResultEntry(trace, estimate_lifetime(trace.t_j, raws)))
            /\ UNCHANGED failures
    /\ trace' = NoTrace
    /\ cur' = NoDevice
    /\ simPc' = "for"
    /\ UNCHANGED <<vrt, irt, devIdx, rainVars, minerVars, lifeVars, thermVars, estVars>>

\* return results
SimReturn ==
    /\ simPc = "for"
    /\ simPc' = "done"
    /\ UNCHANGED <<vrt, irt, devIdx, cur, trace, results, failures, rainVars, minerVars, lifeVars, thermVars, estVars>>

NextSim == FetchDevice \/ SimThermal \/ SimLifetime \/ SimReturn

SpecSim == InitSim /\ [][NextSim]_vars

(***************************************************************************)
(* SpecThermal: the integrator evaluates thermal_model at the initial      *)
(* state y0 = 0 and then at states of its choice.                          *)
(***************************************************************************)
InitThermal ==
    /\ thParams \in ThermalDevices
    /\ thAmb \in AmbientInputs
    /\ thPower = 0
    /\ thY = [k \in 1..Len(thParams.R_TH) |-> 0]
    /\ thDy = [kind |-> "none"]
    /\ RainIdle /\ MinerIdle /\ LifeIdle /\ SimIdle /\ EstIdle

\* One call thermal_model(t, y, params, v_ds_func, i_d_func, t_amb, f_sw) by solve_ivp:
\* the first one at y0, the later ones at any state; p is the total power at time t.
Evaluate ==
    /\ \E p \in PowerInputs, y \in [1..Len(thParams.R_TH) -> RiseInputs] :
          /\ thDy.kind = "none" => y = thY
          /\ thPower' = p
          /\ thY' = y
          /\ thDy' = thermal_model(y, thParams, thAmb, p)
    /\ UNCHANGED <<thParams, thAmb, rainVars, minerVars, lifeVars, simVars, estVars>>

NextThermal == Evaluate

SpecThermal == InitThermal /\ [][NextThermal]_vars

(***************************************************************************)
(* SpecEstimate: estimate_lifetime on one junction-temperature signal.     *)
(***************************************************************************)
InitEstimate ==
    /\ estSignal \in Signals
    /\ est = [kind |-> "none"]
    /\ RainIdle /\ MinerIdle /\ LifeIdle /\ SimIdle /\ ThermIdle

\* degradation, estimated_years, total_cycles, cycles_to_failure = estimate_lifetime(t_j, ...)
EstimateLifetime ==
    /\ est.kind = "none"
    /\ \E raws \in [1..rainflow(estSignal)[2] -> EstRawSet] :
          est' = [kind |-> "returned", value |-> estimate_lifetime(estSignal, raws)]
    /\ UNCHANGED <<estSignal, rainVars, minerVars, lifeVars, simVars, thermVars>>

NextEstimate == EstimateLifetime

SpecEstimate == InitEstimate /\ [][NextEstimate]_vars

(***************************************************************************)
(* Properties of rainflow (Spec).                                          *)
(***************************************************************************)
Returned == rf.pc = "return"

SeqMax(s) == CHOOSE x \in Range(s) : \A y \in Range(s) : y <= x
SeqMin(s) == CHOOSE x \in Range(s) : \A y \in Range(s) : x <= y
PeakToPeak(s) == SeqMax(s) - SeqMin(s)

\* sig alternates between a and b over k full periods, from a back to a.
IsSawtooth(sig, a, b, k) ==
    /\ k >= 1 /\ a # b
    /\ Len(sig) = 2 * k + 1
    /\ \A j \in 1..Len(sig) : sig[j] = IF j % 2 = 1 THEN a ELSE b

\* C1: a sawtooth between midline - A and midline + A over k full periods, with
\* A above min_delta_T, yields exactly k cycles of weight 1.0, each of amplitude A
\* and mean the midline.
C1_SawtoothFullCycles ==
    Returned =>
        \A a \in Levels, b \in Levels, k \in 1..MaxLen :
            (IsSawtooth(signal, a, b, k) /\ Abs(b - a) \div 2 > MinDeltaT) =>
                rf.cycles = [j \in 1..k |-> Cycle(Abs(b - a) \div 2, (a + b) \div 2, FullWeight)]

\* C2 as claimed: a signal whose peak-to-peak swing is strictly below
\* 2 * min_delta_T yields no cycle at all.
C2_BelowTwiceThreshold ==
    (Returned /\ Len(signal) >= 1 /\ PeakToPeak(signal) < 2 * MinDeltaT) =>
        rf.cycles = <<>>

\* C2 as amended: a signal whose peak-to-peak swing is strictly below min_delta_T
\* yields an empty cycle list and a count of 0.
C2_BelowThreshold ==
    (Returned /\ Len(signal) >= 1 /\ PeakToPeak(signal) < MinDeltaT) =>
        rf.cycles = <<>> /\ Len(rf.cycles) = 0

\* A signal with interior extrema and a nonzero swing below the threshold has been
\* pushed, checked and drained.
C2_Witness ==
    /\ Returned /\ Len(signal) >= 4
    /\ PeakToPeak(signal) > 0 /\ PeakToPeak(signal) < MinDeltaT
    /\ Len(rf.pushed) >= 3
    /\ rf.cycles = <<>>

\* C9: every entry of the ordered extrema list, the entry of the last sample
\* included, is pushed exactly once and in order.
C9_EveryExtremumPushed ==
    Returned => rf.pushed = [j \in 1..Len(extrema) |-> j - 1]

\* The three values under the three-point check.
X1(st) == Val(signal, extrema, Top3(st)[1])
X2(st) == Val(signal, extrema, Top3(st)[2])
X3(st) == Val(signal, extrema, Top3(st)[3])

\* The step extracts one full cycle from (x1, x2) and removes the middle entry alone.
ExtractsFull ==
    /\ rf'.cycles = Append(rf.cycles,
                           Cycle(Abs(X2(rf) - X1(rf)) \div 2, (X1(rf) + X2(rf)) \div 2, FullWeight))
    /\ rf'.stack = PopSecond(rf.stack)

\* The step leaves the stack and the cycles as they are.
StopsReducing == rf'.cycles = rf.cycles /\ rf'.stack = rf.stack

\* C10 as claimed: after a push the top three (x1, x2, x3) yield a full cycle
\* exactly when |x2 - x1| >= min_delta_T and |x3 - x2| <= min_delta_T.
C10_OuterWithinThreshold ==
    [][rf.pc = "while" =>
         IF Len(rf.stack) >= 3 /\ Abs(X2(rf) - X1(rf)) >= MinDeltaT
                               /\ Abs(X3(rf) - X2(rf)) <= MinDeltaT
         THEN ExtractsFull ELSE StopsReducing]_vars

\* C10 as amended: after a push the top three (x1, x2, x3) yield a full cycle
\* (amplitude |x2 - x1| / 2, mean (x1 + x2) / 2, weight 1.0, middle entry removed)
\* exactly when |x2 - x1| >= min_delta_T and |x3 - x2| <= |x2 - x1|; otherwise
\* reduction stops for that push and the stack is left unchanged.
C10_OuterWithinInner ==
    [][rf.pc = "while" =>
         IF Len(rf.stack) >= 3 /\ Abs(X2(rf) - X1(rf)) >= MinDeltaT
                               /\ Abs(X3(rf) - X2(rf)) <= Abs(X2(rf) - X1(rf))
         THEN ExtractsFull ELSE StopsReducing]_vars

\* A full cycle has just been extracted (the stack is shorter than the pushes and
\* its two top entries are x1 and x3) although the outer swing |x3 - x2| lies
\* above the threshold.
C10_Witness ==
    /\ rf.pc = "while" /\ rf.cycles # <<>> /\ Len(rf.stack) >= 2
    /\ Len(rf.stack) = Len(rf.pushed) - Len(rf.cycles)
    /\ LET c == rf.cycles[Len(rf.cycles)]
           x1 == Val(signal, extrema, rf.stack[Len(rf.stack) - 1])
           x3 == Val(signal, extrema, rf.stack[Len(rf.stack)])
           x2 == 2 * c.mean - x1
       IN /\ c.weight = FullWeight
          /\ 2 * c.amplitude = Abs(x2 - x1)
          /\ Abs(x3 - x2) > MinDeltaT
          /\ Abs(x3 - x2) <= Abs(x2 - x1)

(***************************************************************************)
(* Properties of estimate_lifetime_years (SpecLife).                       *)
(***************************************************************************)
Estimated == years # NotEstimated

\* C3 as claimed: every damage d with 0 <= d <= 1e-10, d = 0 included, maps to
\* exactly 100 years.
C3_UpToFloorIsCap ==
    (Estimated /\ Leq(Zero, dmg) /\ Leq(dmg, DamageFloor)) => years = Whole(YearsCap)

\* C3 as amended: every damage d with 0 < d <= 1e-10 maps to exactly 100 years,
\* and every d <= 0 (d = 0 included) maps to an infinite lifetime.
C3_PositiveUpToFloorIsCap ==
    Estimated =>
        /\ (Less(Zero, dmg) /\ Leq(dmg, DamageFloor)) => years = Whole(YearsCap)
        /\ Leq(dmg, Zero) => years = Infinite

\* The floor value itself has been estimated.
C3_Witness == Estimated /\ dmg = DamageFloor /\ years = Whole(YearsCap)

(***************************************************************************)
(* Properties of miners_rule_degradation (SpecMiner).                      *)
(***************************************************************************)
\* The sum of weight / max(N_f, 1) over the first k cycles, from the last one down.
RECURSIVE SumUpTo(_)
SumUpTo(k) ==
    IF k = 0 THEN Zero
    ELSE Plus(SumUpTo(k - 1),
              WeightOver(mcycles[k].weight,
                         IF NfLess(mraws[k], NfOne) THEN NfOne ELSE mraws[k]))

\* C4 as claimed: adding one cycle (positive weight, finite cycles to failure) to a
\* cycle list makes the returned damage strictly greater.
C4_StrictlyIncreasing ==
    [][Less(mresult.damage, mresult'.damage)]_vars

\* C4 as amended: adding one cycle never lowers the returned damage; the damage
\* grows strictly when the list was empty, and stays at the floor 1e-10 when the
\* list was non-empty and the Miner's sum with the new cycle does not exceed 1e-10.
C4_NonDecreasing ==
    [][/\ Leq(mresult.damage, mresult'.damage)
       /\ mcycles = <<>> => Less(mresult.damage, mresult'.damage)
       /\ (mcycles # <<>> /\ Leq(MinerSum(mcycles', mraws').damage, DamageFloor)) =>
             (mresult.damage = DamageFloor /\ mresult'.damage = DamageFloor)]_vars

\* A second cycle has been added while the Miner's sum stays below the floor.
C4_Witness ==
    /\ Len(mcycles) = 2
    /\ Less(SumUpTo(1), SumUpTo(2))
    /\ Less(SumUpTo(2), DamageFloor)
    /\ mresult.damage = DamageFloor

\* C8: the damage is 0 with an empty per-cycle list exactly when the cycle list is
\* empty; for a non-empty list the damage is max(sum of weight / N_f, 1e-10), so at
\* least 1e-10, and the per-cycle list holds one (delta_T, N_f) per cycle, in order.
C8_DamageFloor ==
    /\ mcycles = <<>> <=> (mresult.damage = Zero /\ mresult.cycles_to_failure = <<>>)
    /\ mcycles # <<>> =>
          /\ Leq(DamageFloor, mresult.damage)
          /\ mresult.damage = IF Less(SumUpTo(Len(mcycles)), DamageFloor)
                              THEN DamageFloor ELSE SumUpTo(Len(mcycles))
          /\ mresult.cycles_to_failure =
                [k \in 1..Len(mcycles) |->
                    <<mcycles[k].amplitude,
                      IF NfLess(mraws[k], NfOne) THEN NfOne ELSE mraws[k]>>]

\* A non-empty list whose Miner's sum lies below the floor has been evaluated.
C8_Witness ==
    /\ mcycles # <<>>
    /\ Less(Zero, SumUpTo(Len(mcycles))) /\ Less(SumUpTo(Len(mcycles)), DamageFloor)
    /\ mresult.damage = DamageFloor
    /\ Len(mresult.cycles_to_failure) = Len(mcycles)

(***************************************************************************)
(* Properties of run_simulation and run_thermal_simulation (SpecSim).      *)
(***************************************************************************)
FailedNames == {failures[j][1] : j \in 1..Len(failures)}

\* The number of distinct sample times of the two waveforms.
DistinctTimes == Cardinality(Range(vrt) \cup Range(irt))

\* The lengths of the eight sequences of a trace or of a result entry.
EightLengths(r) ==
    {Len(r.t), Len(r.t_j), Len(r.v_ds), Len(r.i_d),
     Len(r.p_total), Len(r.p_cond), Len(r.p_sw), Len(r.p_cap)}

\* C5: a device whose run_thermal_simulation or estimate_lifetime raises gets no
\* entry, the loop goes on to the next device, every device whose two steps both
\* succeeded has an entry, and no step changes or removes the entry of another device.
C5_FailureIsolation ==
    /\ [](simPc \in {"for", "done"} =>
            /\ DOMAIN results \cup FailedNames = 1..devIdx
            /\ DOMAIN results \cap FailedNames = {}
            /\ Len(failures) = Cardinality(FailedNames))
    /\ [][/\ \A n \in DOMAIN results : n \in DOMAIN results' /\ results'[n] = results[n]
          /\ failures' # failures =>
                (results' = results /\ simPc' = "for" /\ failures' = Append(failures, failures'[Len(failures')]))
          /\ results' # results =>
                /\ DOMAIN results' = DOMAIN results \cup {devIdx}
                /\ failures' = failures
                /\ \E raws \in [1..rainflow(trace.t_j)[2] -> SimRawSet] :
                      results'[devIdx] = ResultEntry(trace, estimate_lifetime(trace.t_j, raws))]_vars

\* The first device failed, the second one was simulated and has the only entry.
C5_Witness ==
    /\ simPc = "done" /\ devIdx = 2
    /\ FailedNames = {1}
    /\ DOMAIN results = {2}

\* C6: when the integrator returns fewer columns than evaluation times,
\* run_thermal_simulation raises; every trace it returns, and so every stored
\* result, has its eight sequences of one length, the number of distinct sample
\* times; a failed device has no result.
C6_IntegrationFailureSurfaced ==
    /\ simPc = "thermal" =>
          \A p0 \in PowerInputs, sol \in SolverOutcomes(DistinctTimes) :
             LET r == run_thermal_simulation(cur, vrt, irt, T_AMB, p0, sol)
             IN /\ Len(sol.rises) < DistinctTimes => r.kind = "raise"
                /\ r.kind = "ok" => EightLengths(r) = {DistinctTimes}
    /\ trace.kind = "ok" => EightLengths(trace) = {DistinctTimes}
    /\ \A n \in DOMAIN results : EightLengths(results[n]) = {DistinctTimes}
    /\ DOMAIN results \cap FailedNames = {}

\* The integrator stopped early for device 1 (the power loop ran past the end of
\* t_j), no result is stored for it, and device 2 has a full-length result.
C6_Witness ==
    /\ simPc = "done"
    /\ \E j \in 1..Len(failures) :
          failures[j] = <<1, "IndexError", "run_thermal_simulation">>
    /\ DOMAIN results = {2}
    /\ Len(results[2].t_j) = DistinctTimes

\* C7: a result is stored only for a device whose R_TH and C_TH have the same
\* length; a device whose lists differ in length, either way, fails.
C7_MismatchRejected ==
    [][results' # results => Len(cur.R_TH) = Len(cur.C_TH)]_vars

(***************************************************************************)
(* Properties of thermal_model (SpecThermal).                              *)
(***************************************************************************)
Evaluated == thDy.kind = "ok"

\* The scaled lists (r_th, c_th) of the evaluation the state records.
ThScaled == non_linear_thermal_properties(At(thY, 0) + thAmb, thParams)

ThNodes == Len(thParams.R_TH)

\* C11: for n >= 2 the derivative of the last node is
\* ((y[n-2] - y[n-1]) / R - y[n-1] / R) / C, ambient being at rise zero; in the
\* all-zero state it is zero, whatever t_amb is.
C11_LastNodeAmbientAtZero ==
    (Evaluated /\ ThNodes >= 2) =>
        LET n == ThNodes
            R == At(ThScaled.r_th, n - 1)
            C == At(ThScaled.c_th, n - 1)
        IN /\ thDy.dy[n] = RDiv(RSub(RDiv(RInt(At(thY, n - 2) - At(thY, n - 1)), R),
                                     RDiv(RInt(At(thY, n - 1)), R)), C)
           /\ (\A k \in 1..n : thY[k] = 0) => thDy.dy[n] = RInt(0)

\* C12: for n >= 2 and every link (i, i+1), the flow node i's derivative subtracts
\* and the flow node i+1's derivative adds are both (y[i] - y[i+1]) / r_th[i].
C12_LinkFlowsAgree ==
    (Evaluated /\ ThNodes >= 2) =>
        \A i \in 0..(ThNodes - 2) :
            LET link == RDiv(RInt(At(thY, i) - At(thY, i + 1)), At(ThScaled.r_th, i))
                p_cool == Cooling(thParams, At(thY, 0) + thAmb, thAmb)
            IN /\ OutFlow(i, ThNodes, thY, ThScaled.r_th, thAmb) = link
               /\ InFlow(i + 1, thY, ThScaled.r_th, thPower, p_cool) = link

(***************************************************************************)
(* Properties of the pipeline rainflow -> miners_rule_degradation (Spec)   *)
(* and of estimate_lifetime (SpecEstimate).                                *)
(***************************************************************************)
\* The swing |x2 - x1| the next step of rainflow compares against min_delta_T:
\* of the top three entries in the while loop, of the top two in the drain.
ComparedSwing ==
    IF rf.pc = "while" THEN Abs(X2(rf) - X1(rf))
    ELSE LET n == Len(rf.stack)
         IN Abs(Val(signal, extrema, rf.stack[n]) - Val(signal, extrema, rf.stack[n - 1]))

\* The (delta_T, N_f) pair miners_rule_degradation records for the cycle c.
Recorded(c, raw) == miners_rule_degradation(<<c>>, <<raw>>).cycles_to_failure[1]

\* C13: for every cycle a step of rainflow extracts, the delta_T that
\* miners_rule_degradation records for it is the swing |x2 - x1| rainflow compared
\* against min_delta_T in that step, and so is at least min_delta_T.
C13_RecordedDeltaIsSwing ==
    [][Len(rf'.cycles) > Len(rf.cycles) =>
          \A raw \in NfRawSet :
             LET rec == Recorded(rf'.cycles[Len(rf'.cycles)], raw)
             IN rec[1] = ComparedSwing /\ rec[1] >= MinDeltaT]_vars

EstReturned == est.kind = "returned"

\* 0 < years <= 100 for a finite lifetime.
WithinCap(y) ==
    \/ y.kind = "whole" /\ 0 < y.v /\ y.v <= YearsCap
    \/ y.kind = "recip" /\ Less(Zero, y.x) /\ ~Less(Scale(y.x, YearsCap), One)

\* C14: estimate_lifetime returns total_cycles = len(cycles_to_failure);
\* estimated_years is infinite exactly when total_cycles is 0, and then degradation
\* is 0; otherwise degradation >= 1e-10 and 0 < estimated_years <= 100.
C14_EstimateInvariant ==
    EstReturned =>
        LET v == est.value
        IN /\ v.total_cycles = Len(v.cycles_to_failure)
           /\ (v.estimated_years = Infinite) <=> (v.total_cycles = 0)
           /\ v.total_cycles = 0 => v.degradation = Zero
           /\ v.total_cycles > 0 =>
                 /\ Leq(DamageFloor, v.degradation)
                 /\ WithinCap(v.estimated_years)

\* A signal with a full and a half cycle, and a lifetime below the cap.
C14_Witness ==
    /\ EstReturned
    /\ est.value.total_cycles = 2
    /\ Len(est.value.cycles_to_failure) = 2
    /\ est.value.estimated_years.kind = "recip"

====
